---- MODULE Spec2Model ----
(***************************************************************************)
(* hotpdf: the HotPdf document object (src/hotpdf/hotpdf.py).              *)
(*                                                                         *)
(* The document holds a list of per-page indexes (MemoryMap) and fans the  *)
(* queries find_text / extract_text / extract_spans / extract_spans_text / *)
(* extract_page_text out to them.  HotPdf itself is modelled from its      *)
(* source.  The page index (MemoryMap), the geometry helpers               *)
(* (hotpdf.utils) and the loader (hotpdf.processor) are imported by the    *)
(* source but are not part of it; they are modelled from the design        *)
(* document (sections 4.1 - 4.4 and 6).                                    *)
(*                                                                         *)
(* Strings are sequences of one-character strings.  A Python list that     *)
(* can be shared between the index and a caller is a pair of its contents  *)
(* and the identity of the list ("alias").                                 *)
(***************************************************************************)
EXTENDS Integers, Sequences, FiniteSets, TLC

VARIABLES
    file,      \* what the loader yields for the whole document on disk
    pages,     \* HotPdf.pages: the loaded page indexes
    pc,        \* "idle" | "returned" (a call has returned) | "mutated"
    op,        \* the last call and its arguments
    result,    \* what the last call returned or raised
    touched    \* 0-based numbers of the pages the last call read in self.pages

vars == <<file, pages, pc, op, result, touched>>

----------------------------------------------------------------------------
(* Bounds of the model *)

\* characters on the one page of a document of Spec
MaxChars == 2
\* pages of a document of SpecLoad
MaxPages == 2
\* extents of every page
PageWidth == 4
PageHeight == 1

(* Program constants *)

\* HotPdf.__init__(extraction_tolerance=4)
extraction_tolerance == 4
\* distance under which filter_adjacent_coords takes two hits for one
AdjacencyTolerance == 4
\* y distance above which extract_text_from_bbox breaks the line
LineTolerance == 0

NoSpan == ""
NoAlias == ""
Newline == "\n"

Glyphs == {"a", "b"}
SpanIds == {"s1", "s2"}
\* (x, y) positions of characters; (-1, 0) lies left of the page
Points == {<<-1, 0>>, <<0, 0>>, <<5, 0>>, <<0, 1>>}

Queries == {<<"a">>, <<"a", "b">>}

\* Arguments of the calls under Spec (one-page documents):
\* the `pages` argument of find_text (None and [] are both the empty list),
PageArgs1 == {<<>>, <<0>>, <<1>>}
\* the `page` argument of the extract_* calls,
PageNums1 == {0, 1}
\* and their (x0, y0, x1, y1) arguments
Boxes1 == {<<0, 0, PageWidth, PageHeight>>,
           <<0, 0, PageWidth - extraction_tolerance, PageHeight>>,
           <<-1, 0, PageWidth, PageHeight>>}

\* Arguments of the calls under SpecLoad (documents of several pages)
PageArgs == {<<>>, <<0>>, <<0, 0>>, <<1, 0>>, <<0, -1>>, <<0, MaxPages>>}
PageNums == -1..MaxPages
Boxes == {<<0, 0, PageWidth, PageHeight>>, <<0, 0, 0, 0>>,
          <<-1, 0, 5, 1>>, <<0, -1, 5, 1>>, <<0, 0, -1, 1>>, <<0, 0, 5, -1>>}

----------------------------------------------------------------------------
(* Generic helpers *)

Min(S) == CHOOSE m \in S : \A n \in S : m <= n
Max(S) == CHOOSE m \in S : \A n \in S : n <= m
Range(s) == {s[i] : i \in DOMAIN s}

RECURSIVE Flatten(_)
Flatten(ss) == IF ss = <<>> THEN <<>> ELSE Head(ss) \o Flatten(Tail(ss))

\* Python `q in t` on strings
IsSubstring(q, t) ==
    \E i \in 0..(Len(t) - Len(q)) : SubSeq(t, i + 1, i + Len(q)) = q

\* Python sorted(): stable; keys[i] is the integer sort key of s[i]
RECURSIVE StableSort(_, _)
StableSort(s, keys) ==
    IF s = <<>> THEN <<>>
    ELSE LET n == Len(s)
             t == StableSort(SubSeq(s, 1, n - 1), SubSeq(keys, 1, n - 1))
             k == Cardinality({i \in 1..(n - 1) : keys[i] <= keys[n]})
         IN  SubSeq(t, 1, k) \o <<s[n]>> \o SubSeq(t, k + 1, n - 1)

\* the order of Python tuples (a, b) on small integers, as one integer
LexKey(a, b) == a * 1000 + b

----------------------------------------------------------------------------
(* Data model: HotCharacter, Span, MemoryMap (design document, section 3) *)

\* HotCharacter(value, x, y, span_id)
HotCharacter(v, pt, sid) == [value |-> v, x |-> pt[1], y |-> pt[2], span_id |-> sid]

CharSet == {HotCharacter(v, pt, sid) : v \in Glyphs, pt \in Points, sid \in SpanIds \cup {NoSpan}}

\* The loader emits the characters run by run: the characters of a span are
\* consecutive, and span identifiers are handed out in rendering order.
RunsInOrder(cs) ==
    /\ \A i, j, k \in DOMAIN cs :
          (i < j /\ j < k /\ cs[i].span_id # NoSpan /\ cs[i].span_id = cs[k].span_id)
             => cs[j].span_id = cs[i].span_id
    /\ \A i \in DOMAIN cs : cs[i].span_id = "s2" => \E j \in 1..(i - 1) : cs[j].span_id = "s1"

\* MemoryMap.span_map: span identifier -> the character list of the Span
SpanMapOf(cs) ==
    [sid \in {cs[i].span_id : i \in DOMAIN cs} \ {NoSpan} |->
        SelectSeq(cs, LAMBDA c : c.span_id = sid)]

\* a page index built by the loader from a character sequence
MemoryMap(cs) ==
    [width |-> PageWidth, height |-> PageHeight, chars |-> cs, span_map |-> SpanMapOf(cs)]

\* every page index with exactly n characters
PagesWith(n) == {MemoryMap(cs) : cs \in {c \in [1..n -> CharSet] : RunsInOrder(c)}}

\* every document of exactly np pages and exactly nc characters in all
RECURSIVE DocsWith(_, _)
DocsWith(np, nc) ==
    IF np = 0 THEN (IF nc = 0 THEN {<<>>} ELSE {})
    ELSE UNION {{<<p>> \o d : p \in PagesWith(k), d \in DocsWith(np - 1, nc - k)} : k \in 0..nc}

\* what processor.process yields for whole files: at most np pages, at most nc characters
Documents(np, nc) == UNION {DocsWith(n, c) : n \in 0..np, c \in 0..nc}

\* the pages of the several-page documents: blank, or one character
LoadPages == {MemoryMap(<<>>)} \cup {MemoryMap(<<HotCharacter(v, <<0, 0>>, "s1")>>) : v \in Glyphs}
LoadDocuments == UNION {[1..n -> LoadPages] : n \in 0..MaxPages}

----------------------------------------------------------------------------
(* hotpdf.utils: geometry (design document, sections 4.1 and 4.4) *)

ElementDimension(x0, y0, x1, y1) == [x0 |-> x0, y0 |-> y0, x1 |-> x1, y1 |-> y1]

\* bounding box of a non-empty character list
get_element_dimension(cs) ==
    ElementDimension(Min({cs[i].x : i \in DOMAIN cs}), Min({cs[i].y : i \in DOMAIN cs}),
                     Max({cs[i].x : i \in DOMAIN cs}), Max({cs[i].y : i \in DOMAIN cs}))

\* open-interval overlap; touching edges do not intersect
intersect(a, b) == a.x0 < b.x1 /\ b.x0 < a.x1 /\ a.y0 < b.y1 /\ b.y0 < a.y1

Separation(a, b) ==
    Max({0, a.x0 - b.x1, b.x0 - a.x1, a.y0 - b.y1, b.y0 - a.y1})

\* two raw hits are the same visual occurrence
SameOccurrence(h, k) ==
    LET a == get_element_dimension(h)
        b == get_element_dimension(k)
    IN  intersect(a, b) \/ Separation(a, b) < AdjacencyTolerance

BoxWidth(h) == LET d == get_element_dimension(h) IN d.x1 - d.x0

\* merge the hits that are one occurrence, keeping the widest (the first on a tie)
RECURSIVE filter_adjacent_coords(_)
filter_adjacent_coords(hits) ==
    IF hits = <<>> THEN <<>>
    ELSE LET n == Len(hits)
             kept == filter_adjacent_coords(SubSeq(hits, 1, n - 1))
             h == hits[n]
             same == {i \in DOMAIN kept : SameOccurrence(kept[i], h)}
         IN  IF same = {} THEN Append(kept, h)
             ELSE LET i == Min(same)
                  IN  IF BoxWidth(h) > BoxWidth(kept[i]) THEN [kept EXCEPT ![i] = h] ELSE kept

----------------------------------------------------------------------------
(* MemoryMap: the page index (design document, section 4.3) *)

Abs(n) == IF n < 0 THEN -n ELSE n

\* text of the characters inside [x0, x1] x [y0, y1], by ascending y then x
extract_text_from_bbox(page, x0, x1, y0, y1) ==
    LET sel == SelectSeq(page.chars,
                   LAMBDA c : x0 <= c.x /\ c.x <= x1 /\ y0 <= c.y /\ c.y <= y1)
        ord == StableSort(sel, [i \in DOMAIN sel |-> LexKey(sel[i].y, sel[i].x)])
    IN  Flatten([i \in DOMAIN ord |->
            IF i > 1 /\ Abs(ord[i].y - ord[i - 1].y) > LineTolerance
            THEN <<Newline, ord[i].value>> ELSE <<ord[i].value>>])

\* every contiguous run, in rendering order, whose glyphs spell the query
MemoryMap_find_text(page, query) ==
    LET n == Len(query)
        cs == page.chars
        starts == {i \in 1..(Len(cs) - n + 1) :
                      \A j \in 1..n : cs[i + j - 1].value = query[j]}
        nth(k) == CHOOSE i \in starts : Cardinality({j \in starts : j < i}) = k - 1
    IN  [k \in 1..Cardinality(starts) |-> SubSeq(cs, nth(k), nth(k) + n - 1)]

\* Span.to_text(): the glyphs in stored order
to_text(cs) == [i \in DOMAIN cs |-> cs[i].value]

----------------------------------------------------------------------------
(* hotpdf.processor (design document, section 6) *)

\* the pdf_file argument of load: its Python type and whether the file is there
PdfFiles == {[type |-> "str", exists |-> TRUE], [type |-> "str", exists |-> FALSE],
             [type |-> "PurePath", exists |-> TRUE], [type |-> "PurePath", exists |-> FALSE],
             [type |-> "IOBase", exists |-> TRUE]}
\* what the backend does with the file: decode it, or fail
Backends == {"ok", "AccessDenied", "BackendFailure"}

\* pages first..last of the file, 1-indexed and inclusive, 0 meaning unbounded
process(doc, pdf_file, first_page, last_page, backend) ==
    IF ~pdf_file.exists THEN [raised |-> "FileNotFound", pages |-> <<>>]
    ELSE IF backend # "ok" THEN [raised |-> backend, pages |-> <<>>]
    ELSE [raised |-> "",
          pages |-> LET keep == {i \in DOMAIN doc : (first_page = 0 \/ i >= first_page)
                                                   /\ (last_page = 0 \/ i <= last_page)}
                        nth(k) == CHOOSE i \in keep : Cardinality({j \in keep : j < i}) = k - 1
                    IN  [k \in 1..Cardinality(keep) |-> doc[nth(k)]]]

----------------------------------------------------------------------------
(* HotPdf (src/hotpdf/hotpdf.py) *)

\* an exception leaving a call; t: the pages of self.pages read before it
Raise(e, t) == [kind |-> "error", err |-> e, value |-> <<>>, touched |-> t]
\* a value returned by a call
Return(k, v, t) == [kind |-> k, err |-> "", value |-> v, touched |-> t]
NoResult == [kind |-> "none", err |-> "", value |-> <<>>]
NoOp == [name |-> "none"]

\* a Python list: its contents and, when it is the list a Span holds, that Span
PyList(cs, a) == [chars |-> cs, alias |-> a]
None == PyList(<<>>, NoAlias)

\* self.pages[i]: position in the sequence, or 0 for an IndexError
PyIndex(pgs, i) ==
    IF 0 <= i /\ i < Len(pgs) THEN i + 1
    ELSE IF i < 0 /\ -i <= Len(pgs) THEN Len(pgs) + i + 1
    ELSE 0

\* the checks give "" or the message of the ValueError they raise
check_file_exists(pdf_file) ==
    IF ~pdf_file.exists THEN "FileNotFoundError" ELSE ""

check_coordinates(x0, y0, x1, y1) ==
    IF x0 < 0 \/ x1 < 0 \/ y0 < 0 \/ y1 < 0 THEN "Invalid coordinates" ELSE ""

\* the check without its lower bound
check_page_number_no_lower_bound(pgs, page) ==
    IF page >= Len(pgs) THEN "Invalid page number" ELSE ""

check_page_number(pgs, page) ==
    IF page < 0 \/ page >= Len(pgs) THEN "Invalid page number" ELSE ""

check_page_range(first_page, last_page) ==
    IF first_page > last_page \/ first_page < 0 \/ last_page < 0
    THEN "Invalid page range" ELSE ""

prechecks(pdf_file, first_page, last_page) ==
    LET e == IF pdf_file.type = "str" THEN check_file_exists(pdf_file) ELSE ""
    IN  IF e # "" THEN e ELSE check_page_range(first_page, last_page)

\* load that empties self.pages before it calls the processor
load_clearing_first(pgs, doc, pdf_file, first_page, last_page, backend) ==
    LET e == prechecks(pdf_file, first_page, last_page)
        r == process(doc, pdf_file, first_page, last_page, backend)
    IN  IF e # "" THEN [pages |-> pgs, raised |-> e, invoked |-> FALSE]
        ELSE IF r.raised # "" THEN [pages |-> <<>>, raised |-> r.raised, invoked |-> TRUE]
        ELSE [pages |-> r.pages, raised |-> "", invoked |-> TRUE]

\* load: the new self.pages, what was raised, and whether the processor ran
load(pgs, doc, pdf_file, first_page, last_page, backend) ==
    LET e == prechecks(pdf_file, first_page, last_page)
        r == process(doc, pdf_file, first_page, last_page, backend)
    IN  IF e # "" THEN [pages |-> pgs, raised |-> e, invoked |-> FALSE]
        ELSE IF r.raised # "" THEN [pages |-> pgs, raised |-> r.raised, invoked |-> TRUE]
        ELSE [pages |-> r.pages, raised |-> "", invoked |-> TRUE]

extract_text(pgs, x0, y0, x1, y1, page) ==
    LET e1 == check_coordinates(x0, y0, x1, y1)
        e2 == check_page_number(pgs, page)
        i == PyIndex(pgs, page)
    IN  IF e1 # "" THEN Raise(e1, {})
        ELSE IF e2 # "" THEN Raise(e2, {})
        ELSE IF i = 0 THEN Raise("IndexError", {})
        ELSE Return("text",
                    extract_text_from_bbox(pgs[i], x0, x1 + extraction_tolerance, y0, y1),
                    {i - 1})

\* extract_page_text with the tolerance pad of extract_text on x1
extract_page_text_padded(pgs, page) ==
    LET e == check_page_number(pgs, page)
        i == PyIndex(pgs, page)
    IN  IF e # "" THEN Raise(e, {})
        ELSE IF i = 0 THEN Raise("IndexError", {})
        ELSE Return("text",
                    extract_text_from_bbox(pgs[i], 0, pgs[i].width + extraction_tolerance,
                                           0, pgs[i].height),
                    {i - 1})

extract_page_text(pgs, page) ==
    LET e == check_page_number(pgs, page)
        i == PyIndex(pgs, page)
    IN  IF e # "" THEN Raise(e, {})
        ELSE IF i = 0 THEN Raise("IndexError", {})
        ELSE Return("text",
                    extract_text_from_bbox(pgs[i], 0, pgs[i].width, 0, pgs[i].height),
                    {i - 1})

\* the spans of the page, in span_map order, whose bounding box meets the box
extract_spans(pgs, x0, y0, x1, y1, page) ==
    LET e1 == check_coordinates(x0, y0, x1, y1)
        e2 == check_page_number(pgs, page)
        i == PyIndex(pgs, page)
    IN  IF e1 # "" THEN Raise(e1, {})
        ELSE IF e2 # "" THEN Raise(e2, {})
        ELSE IF i = 0 THEN Raise("IndexError", {})
        ELSE LET sm == pgs[i].span_map
                 hit(sid) == sid \in DOMAIN sm
                             /\ intersect(ElementDimension(x0, y0, x1, y1),
                                          get_element_dimension(sm[sid]))
             IN  Return("spans",
                        (IF hit("s1") THEN <<[span_id |-> "s1", characters |-> sm["s1"]]>> ELSE <<>>)
                        \o (IF hit("s2") THEN <<[span_id |-> "s2", characters |-> sm["s2"]]>> ELSE <<>>),
                        {i - 1})

extract_spans_text(pgs, x0, y0, x1, y1, page) ==
    LET e1 == check_coordinates(x0, y0, x1, y1)
        e2 == check_page_number(pgs, page)
        r == extract_spans(pgs, x0, y0, x1, y1, page)
    IN  IF e1 # "" THEN Raise(e1, {})
        ELSE IF e2 # "" THEN Raise(e2, {})
        ELSE IF r.kind = "error" THEN r
        ELSE Return("text",
                    Flatten([k \in DOMAIN r.value |-> to_text(r.value[k].characters)]),
                    r.touched)

\* the character list of the span the first character belongs to, or None
extract_full_text_span(pgs, hot_characters, page_num) ==
    LET sid == hot_characters[1].span_id
    IN  IF sid # NoSpan
        THEN PyList(pgs[PyIndex(pgs, page_num)].span_map[sid], sid)
        ELSE None

\* query_pages that searches every loaded page whatever is listed
query_pages_all(pgs, pages_arg) == 0..(Len(pgs) - 1)

\* the pages find_text searches, as the key set of the dict query_pages
query_pages(pgs, pages_arg) ==
    IF Len(pages_arg) = 0 THEN 0..(Len(pgs) - 1) ELSE Range(pages_arg)

\* sorted(chars, key=lambda ch: (ch.x, ch.y))
sorted_chars(cs) == StableSort(cs, [i \in DOMAIN cs |-> LexKey(cs[i].x, cs[i].y)])

\* one iteration of `for hot_characters in hot_character_page_occurences`:
\* what it raises, and the lists it appends to final_found_page_map[page_num]
find_text_occurrence(pgs, query, page_num, hot_characters, validate, take_span, sort) ==
    LET element_dimension == get_element_dimension(hot_characters)
        text == extract_text(pgs, element_dimension.x0, element_dimension.y0,
                             element_dimension.x1, element_dimension.y1, page_num)
        seen_span_ids == <<>>
        full_span_dimension_hot_characters ==
            IF take_span THEN extract_full_text_span(pgs, hot_characters, page_num) ELSE None
        chars_to_append ==
            IF take_span /\ full_span_dimension_hot_characters.chars # <<>>
            THEN full_span_dimension_hot_characters
            ELSE PyList(hot_characters, NoAlias)
    IN  IF text.kind = "error" THEN [raised |-> text.err, appended |-> <<>>]
        ELSE IF IsSubstring(query, text.value) \/ ~validate
        THEN [raised |-> "",
              appended |->
                 IF chars_to_append.chars # <<>>
                 THEN IF chars_to_append.chars[1].span_id \in Range(seen_span_ids)
                      THEN <<>>
                      ELSE IF sort
                           THEN <<PyList(sorted_chars(chars_to_append.chars), NoAlias)>>
                           ELSE <<chars_to_append>>
                 ELSE <<chars_to_append>>]
        ELSE [raised |-> "", appended |-> <<>>]

\* the loop over the occurrences of one page
RECURSIVE find_text_page(_, _, _, _, _, _, _)
find_text_page(pgs, query, page_num, occurences, validate, take_span, sort) ==
    IF occurences = <<>> THEN [raised |-> "", appended |-> <<>>]
    ELSE LET n == Len(occurences)
             before == find_text_page(pgs, query, page_num, SubSeq(occurences, 1, n - 1),
                                      validate, take_span, sort)
             this == find_text_occurrence(pgs, query, page_num, occurences[n],
                                          validate, take_span, sort)
         IN  IF before.raised # "" THEN before
             ELSE IF this.raised # "" THEN this
             ELSE [raised |-> "", appended |-> before.appended \o this.appended]

find_text(pgs, query, pages_arg, validate, take_span, sort) ==
    LET bad == {i \in DOMAIN pages_arg : check_page_number(pgs, pages_arg[i]) # ""}
        keys == query_pages(pgs, pages_arg)
        read == {PyIndex(pgs, p) - 1 : p \in keys}
        found_page_map ==
            [p \in keys |-> filter_adjacent_coords(MemoryMap_find_text(pgs[PyIndex(pgs, p)], query))]
        final_found_page_map ==
            [p \in keys |-> find_text_page(pgs, query, p, found_page_map[p],
                                           validate, take_span, sort)]
        failed == {p \in keys : final_found_page_map[p].raised # ""}
    IN  IF bad # {} THEN Raise("Invalid page number", {})
        ELSE IF \E p \in keys : PyIndex(pgs, p) = 0 THEN Raise("IndexError", {})
        ELSE IF failed # {} THEN Raise(final_found_page_map[Min(failed)].raised, read)
        ELSE Return("search", [p \in keys |-> final_found_page_map[p].appended], read)

----------------------------------------------------------------------------
(* The state machine: a caller of one HotPdf object *)

TypeOK ==
    /\ pc \in {"idle", "returned", "mutated"}
    /\ result.kind \in {"none", "error", "search", "text", "spans", "load"}

\* HotPdf(pdf_file): constructed over a one-page (or empty) document, fully loaded
Init ==
    /\ file \in Documents(1, MaxChars)
    /\ pages = file
    /\ pc = "idle"
    /\ op = NoOp
    /\ result = NoResult
    /\ touched = {}

\* HotPdf(): constructed without a file; the document on disk has several pages
InitLoad ==
    /\ file \in LoadDocuments
    /\ pages = <<>>
    /\ pc = "idle"
    /\ op = NoOp
    /\ result = NoResult
    /\ touched = {}

Returned(o, r) ==
    /\ pc' = "returned"
    /\ op' = o
    /\ result' = [kind |-> r.kind, err |-> r.err, value |-> r.value]
    /\ touched' = r.touched

Load(pdf_file, first_page, last_page, backend) ==
    /\ pc = "idle"
    /\ LET r == load(pages, file, pdf_file, first_page, last_page, backend)
       IN  /\ pages' = r.pages
           /\ pc' = "returned"
           /\ op' = [name |-> "load", pdf_file |-> pdf_file, first_page |-> first_page,
                     last_page |-> last_page, backend |-> backend, invoked |-> r.invoked,
                     before |-> pages]
           /\ result' = IF r.raised # "" THEN [kind |-> "error", err |-> r.raised, value |-> <<>>]
                        ELSE [kind |-> "load", err |-> "", value |-> <<>>]
           /\ touched' = {}
    /\ UNCHANGED file

FindText(query, pages_arg, validate, take_span, sort) ==
    /\ pc = "idle"
    /\ Returned([name |-> "find_text", query |-> query, pages |-> pages_arg,
                 validate |-> validate, take_span |-> take_span, sort |-> sort],
                find_text(pages, query, pages_arg, validate, take_span, sort))
    /\ UNCHANGED <<file, pages>>

ExtractText(box, page) ==
    /\ pc = "idle"
    /\ Returned([name |-> "extract_text", box |-> box, page |-> page],
                extract_text(pages, box[1], box[2], box[3], box[4], page))
    /\ UNCHANGED <<file, pages>>

ExtractSpans(box, page) ==
    /\ pc = "idle"
    /\ Returned([name |-> "extract_spans", box |-> box, page |-> page],
                extract_spans(pages, box[1], box[2], box[3], box[4], page))
    /\ UNCHANGED <<file, pages>>

ExtractSpansText(box, page) ==
    /\ pc = "idle"
    /\ Returned([name |-> "extract_spans_text", box |-> box, page |-> page],
                extract_spans_text(pages, box[1], box[2], box[3], box[4], page))
    /\ UNCHANGED <<file, pages>>

ExtractPageText(page) ==
    /\ pc = "idle"
    /\ Returned([name |-> "extract_page_text", box |-> <<0, 0, 0, 0>>, page |-> page],
                extract_page_text(pages, page))
    /\ UNCHANGED <<file, pages>>

Reverse(s) == [i \in DOMAIN s |-> s[Len(s) + 1 - i]]

\* the caller reverses, in place, occurrence k of page p of a SearchResult; a
\* list that is the list of a Span is that Span's list, wherever it is held
MutateResult(p, k) ==
    /\ pc = "returned"
    /\ result.kind = "search"
    /\ p \in DOMAIN result.value
    /\ k \in DOMAIN result.value[p]
    /\ LET occ == result.value[p][k]
           new == Reverse(occ.chars)
           i == PyIndex(pages, p)
       IN  /\ result' = [result EXCEPT !.value[p] =
                  [j \in DOMAIN @ |->
                      IF j = k \/ (occ.alias # NoAlias /\ @[j].alias = occ.alias)
                      THEN PyList(new, @[j].alias) ELSE @[j]]]
           /\ pages' = IF occ.alias = NoAlias THEN pages
                       ELSE [pages EXCEPT ![i].span_map[occ.alias] = new]
    /\ pc' = "mutated"
    /\ UNCHANGED <<file, op, touched>>

\* the caller drops the result of the last call
Discard ==
    /\ pc \in {"returned", "mutated"}
    /\ pc' = "idle"
    /\ op' = NoOp
    /\ result' = NoResult
    /\ touched' = {}
    /\ UNCHANGED <<file, pages>>

\* the calls a caller can make, over the given argument sets
Calls(page_args, boxes, page_nums) ==
    \/ \E q \in Queries, pa \in page_args, v \in BOOLEAN, ts \in BOOLEAN, so \in BOOLEAN :
          FindText(q, pa, v, ts, so)
    \/ \E b \in boxes, p \in page_nums : ExtractText(b, p)
    \/ \E b \in boxes, p \in page_nums : ExtractSpans(b, p)
    \/ \E b \in boxes, p \in page_nums : ExtractSpansText(b, p)
    \/ \E p \in page_nums : ExtractPageText(p)

Next ==
    \/ Calls(PageArgs1, Boxes1, PageNums1)
    \/ \E k \in 1..MaxChars : MutateResult(0, k)
    \/ Discard

NextLoad ==
    \/ \E f \in PdfFiles, fp \in -1..MaxPages, lp \in -1..MaxPages, b \in Backends :
          Load(f, fp, lp, b)
    \/ Calls(PageArgs, Boxes, PageNums)
    \/ \E p \in 0..(MaxPages - 1) : MutateResult(p, 1)
    \/ Discard

Spec == Init /\ [][Next]_vars
SpecLoad == InitLoad /\ [][NextLoad]_vars

----------------------------------------------------------------------------
(* Properties *)

\* find_text has returned a SearchResult and the caller has not touched it
FoundText == pc = "returned" /\ op.name = "find_text" /\ result.kind = "search"

BoxCalls == {"extract_text", "extract_spans", "extract_spans_text"}
OutOfRange(page) == page < 0 \/ page >= Len(pages)
NegativeBox(box) == \E i \in 1..4 : box[i] < 0

\* the last call was a query with an invalid argument
InvalidQuery ==
    /\ pc = "returned"
    /\ \/ op.name = "find_text" /\ \E i \in DOMAIN op.pages : OutOfRange(op.pages[i])
       \/ op.name \in BoxCalls /\ (NegativeBox(op.box) \/ OutOfRange(op.page))
       \/ op.name = "extract_page_text" /\ OutOfRange(op.page)

\* C1: a query with a negative coordinate or an out-of-range page number
\* (for find_text: anywhere in `pages`, also after valid ones) raises the
\* input error for it, having read no page of self.pages and produced no result.
C1_ValidationBeforeIndex ==
    InvalidQuery =>
        /\ result.kind = "error"
        /\ touched = {}
        /\ result.err = IF op.name \in BoxCalls /\ NegativeBox(op.box)
                        THEN "Invalid coordinates" ELSE "Invalid page number"

\* find_text over a loaded document, a valid page listed before an invalid one
C1_Witness ==
    /\ InvalidQuery
    /\ op.name = "find_text"
    /\ op.pages = <<0, -1>>
    /\ Len(pages) > 0
    /\ result.err = "Invalid page number"

\* text of the bounding box of an occurrence, as extract_text gives it
BoxText(cs, page_num) ==
    LET d == get_element_dimension(cs)
    IN  extract_text(pages, d.x0, d.y0, d.x1, d.y1, page_num)

\* C2: with validate=true, the query is a substring of extract_text over the
\* bounding box of every occurrence find_text returns.
C2_ValidationSound ==
    (FoundText /\ op.validate) =>
        \A p \in DOMAIN result.value : \A k \in DOMAIN result.value[p] :
            LET t == BoxText(result.value[p][k].chars, p)
            IN  t.kind = "text" /\ IsSubstring(op.query, t.value)

\* (min x, min y) of an occurrence, in the order of Python tuples
MinKey(cs) == LET d == get_element_dimension(cs) IN LexKey(d.x0, d.y0)

\* C3: with sort=true, the occurrences find_text returns for each page are in
\* non-decreasing order of (min x, min y) of their characters.
C3_OccurrencesSorted ==
    (FoundText /\ op.sort) =>
        \A p \in DOMAIN result.value : \A k \in 1..(Len(result.value[p]) - 1) :
            MinKey(result.value[p][k].chars) <= MinKey(result.value[p][k + 1].chars)

\* C4: with take_span=true, no span is the owning span of two occurrences
\* returned for one page.
C4_OneOccurrencePerSpan ==
    (FoundText /\ op.take_span) =>
        \A p \in DOMAIN result.value : \A j, k \in DOMAIN result.value[p] :
            LET a == result.value[p][j].chars
                b == result.value[p][k].chars
            IN  (j < k /\ a # <<>> /\ b # <<>> /\ a[1].span_id # NoSpan)
                    => a[1].span_id # b[1].span_id

\* the hits of page p for the last find_text, before validation and promotion
Hits(p) == filter_adjacent_coords(MemoryMap_find_text(pages[p + 1], op.query))
SpansOf(cs) == {cs[i].span_id : i \in DOMAIN cs}
AsReturned(cs) == IF op.sort THEN sorted_chars(cs) ELSE cs

\* C5: with take_span=true (validate=false, so that every hit is returned), a
\* hit whose characters share one span is returned as that span's characters,
\* and a hit with characters of two spans is returned as the matched characters.
C5_Promotion ==
    (FoundText /\ op.take_span /\ ~op.validate) =>
        \A p \in DOMAIN result.value :
            Len(result.value[p]) = Len(Hits(p)) =>
                \A k \in DOMAIN result.value[p] :
                    LET h == Hits(p)[k]
                        ids == SpansOf(h)
                    IN  /\ (Cardinality(ids) = 1 /\ ids # {NoSpan}) =>
                              result.value[p][k].chars = AsReturned(pages[p + 1].span_map[h[1].span_id])
                        /\ (Cardinality(ids \ {NoSpan}) > 1) =>
                              result.value[p][k].chars = AsReturned(h)

\* C6: find_text over no pages or in-range pages returns a SearchResult.
C6_FindTextTotal ==
    (pc = "returned" /\ op.name = "find_text"
        /\ \A i \in DOMAIN op.pages : ~OutOfRange(op.pages[i]))
    => result.kind = "search"

\* C7: the keys of the SearchResult are exactly the pages queried: all loaded
\* pages for an empty `pages`, else the listed ones; a queried page that holds
\* no character of the query is there with an empty PageResult.
C7_ResultKeys ==
    FoundText =>
        /\ \A p \in -1..(MaxPages + 1) :
              p \in DOMAIN result.value <=>
                 IF op.pages = <<>> THEN 0 <= p /\ p < Len(pages)
                 ELSE \E i \in DOMAIN op.pages : op.pages[i] = p
        /\ DOMAIN result.value \subseteq -1..(MaxPages + 1)
        /\ \A p \in DOMAIN result.value :
              (\A i \in DOMAIN pages[p + 1].chars : pages[p + 1].chars[i].value # op.query[1])
                 => result.value[p] = <<>>

\* two pages loaded, one listed: a key with occurrences; and all pages queried
\* with one of them empty
C7_Witness ==
    /\ FoundText
    /\ Len(pages) = 2
    /\ \/ op.pages = <<0>> /\ result.value[0] # <<>>
       \/ op.pages = <<>> /\ result.value[0] = <<>> /\ result.value[1] # <<>>

\* the characters of page i (1-based) in the tolerance pad right of the page
InPad(i) ==
    {k \in DOMAIN pages[i].chars :
        LET c == pages[i].chars[k]
        IN  /\ pages[i].width < c.x /\ c.x <= pages[i].width + extraction_tolerance
            /\ 0 <= c.y /\ c.y <= pages[i].height}

PageTextReturned == pc = "returned" /\ op.name = "extract_page_text" /\ result.kind = "text"

\* C8 as stated: extract_page_text(p) = extract_text(0, 0, width, height, p).
C8_PageTextIsExtractText ==
    PageTextReturned =>
        LET pg == pages[op.page + 1]
            t == extract_text(pages, 0, 0, pg.width, pg.height, op.page)
        IN  t.kind = "text" /\ result.value = t.value

\* C8 amended: extract_page_text(p) takes the box [0, width] x [0, height]
\* without the tolerance pad of extract_text: it is extract_text(0, 0,
\* width - extraction_tolerance, height, p) when width >= extraction_tolerance,
\* and it is extract_text(0, 0, width, height, p) when no character lies in
\* the pad right of the page.
C8_PageTextUnpadded ==
    PageTextReturned =>
        LET pg == pages[op.page + 1]
            t == extract_text(pages, 0, 0, pg.width, pg.height, op.page)
            u == extract_text(pages, 0, 0, pg.width - extraction_tolerance, pg.height, op.page)
        IN  /\ (pg.width >= extraction_tolerance) => (u.kind = "text" /\ result.value = u.value)
            /\ (InPad(op.page + 1) = {}) => (t.kind = "text" /\ result.value = t.value)

\* the text of a page with a character on it and a character in the pad
C8_Witness ==
    /\ PageTextReturned
    /\ result.value # <<>>
    /\ InPad(op.page + 1) # {}
    /\ pages[op.page + 1].width >= extraction_tolerance

\* C9: no list find_text returns is the character list of a Span of the index.
C9_NoAlias ==
    FoundText =>
        \A p \in DOMAIN result.value : \A k \in DOMAIN result.value[p] :
            result.value[p][k].alias = NoAlias

\* the contiguous runs of pages of the document on disk
PageRuns == {SubSeq(file, i, j) : i \in 1..(Len(file) + 1), j \in 0..Len(file)}

\* C10: a load that raises leaves self.pages as it was; a missing str path or
\* a bad page range raises before the processor is called; a load that
\* succeeds sets self.pages to a run of pages of the document.
C10_LoadAllOrNothing ==
    [][(pc = "idle" /\ op'.name = "load") =>
          /\ (result'.kind = "error") => (pages' = pages)
          /\ (\/ op'.pdf_file.type = "str" /\ ~op'.pdf_file.exists
              \/ op'.first_page > op'.last_page
              \/ op'.first_page < 0
              \/ op'.last_page < 0)
                => (result'.kind = "error" /\ ~op'.invoked /\ pages' = pages)
          /\ (op'.backend # "ok") => (result'.kind = "error" /\ pages' = pages)
          /\ (result'.kind = "load") => (op'.invoked /\ pages' \in PageRuns)]_vars

\* a load failed in the processor while pages were loaded
C10_Witness ==
    /\ pc = "returned"
    /\ op.name = "load"
    /\ op.invoked
    /\ result.kind = "error"
    /\ op.before # <<>>
    /\ pages = op.before

====
